---- MODULE Spec2Model ----
(***************************************************************************)
(* Whiz POS back office: the lazily connected, memoized database           *)
(* connection (connectDB), the request guard in front of the routes, and   *)
(* the salary controller (list / add / delete) over the Salary collection. *)
(*                                                                         *)
(* Node runs one handler at a time.  A step of the model is what runs      *)
(* between two awaits.  The continuations of a settled promise are         *)
(* microtasks: they run, in the order they were registered, before any     *)
(* other event (a request, a timer, a socket event) is taken.  The server  *)
(* start (startServer) retries the next port when one is in use.           *)
(***************************************************************************)
EXTENDS Integers, Sequences, FiniteSets

\* Bounds of the model.
MaxReq == 2      \* request slots: requests being handled at the same time
MaxClock == 1    \* Date.now() ranges over 0..MaxClock
MaxDirect == 1   \* SpecCalls only: further callers that invoke connectDB
MaxPorts == 3    \* SpecListen only: the ports from the preferred one on that exist

Boot == 0                                       \* the call of line 162
Reqs == 1..MaxReq                               \* the guard's call for a request
Direct == (MaxReq + 1)..(MaxReq + MaxDirect)    \* callers of SpecCalls
Callers == 0..(MaxReq + MaxDirect)

NULL == "null"
Times == 0..MaxClock

VARIABLES
    VERCEL,        \* process.env.VERCEL is set
    VERCEL_ENV,    \* process.env.VERCEL_ENV is set
    MONGODB_URI,   \* process.env.MONGODB_URI: "none", "configured", "memory"
    cached,        \* global.mongoose: [conn, promise]; promise indexes attempts, 0 is null
    attempts,      \* the promises mongoose.connect returned, in order of creation
    readyState,    \* mongoose.connection.readyState: 0, 1 (connected), 2 (connecting)
    memStarted,    \* number of MongoMemoryServer.create() calls
    call,          \* per caller: where its connectDB call stands
    ret,           \* per caller: what its last connectDB call returned
    microtasks,    \* continuations ready to run, first first
    now,           \* Date.now()
    req,           \* per request slot: the request being handled
    last,          \* the response sent last
    salaries,      \* the Salary collection, in insertion order
    server         \* the HTTP server: its listen attempts and the ports' state

vars == <<VERCEL, VERCEL_ENV, MONGODB_URI, cached, attempts, readyState,
          memStarted, call, ret, microtasks, now, req, last, salaries, server>>

----------------------------------------------------------------------------
\* connectDB

\* line 109, mutated: only VERCEL is looked at (as line 90 does)
isVercelOnlyFlag == VERCEL

\* line 109: const isVercel = process.env.VERCEL || process.env.VERCEL_ENV
isVercel == VERCEL \/ VERCEL_ENV

\* line 118, mutated: the cached promise is not looked at
needsConnectAlways == TRUE

\* line 118, mutated: a rejected promise is replaced by a new connect
needsConnectOrFailed == cached.promise = 0 \/ attempts[cached.promise].state = "rejected"

\* line 118: if (!cached.promise)
needsConnect == cached.promise = 0

\* lines 102-104, mutated: the cached handle is not looked at
hasConnNever == FALSE

\* line 102: if (cached.conn)
hasConn == cached.conn # NULL

\* lines 111-114, mutated: the early return is missing
noUriOnVercelNever == FALSE

\* line 111: if (!mongoUri && isVercel)
noUriOnVercel == MONGODB_URI = "none" /\ isVercel

Idle == [pc |-> "idle", p |-> 0]

\* The microtask queue once caller c's connectDB promise has resolved: the
\* guard that awaits it (line 175) continues in a later microtask.
Resolved(c, mt) == IF c \in Reqs THEN Append(mt, <<"guard", c>>) ELSE mt

\* return v from connectDB
Return(c, v, mt) ==
    /\ ret' = [ret EXCEPT ![c] = v]
    /\ call' = [call EXCEPT ![c] = Idle]
    /\ microtasks' = Resolved(c, mt)

\* mongoose.connect(uri): a new attempt, the connection goes to connecting
Connect(c) ==
    /\ attempts' = Append(attempts, [state |-> "pending", waiters |-> <<c>>])
    /\ cached' = [cached EXCEPT !.promise = Len(attempts) + 1]
    /\ readyState' = 2

\* lines 133-136, mutated: the failure is thrown on to the caller
FailedOnVercelThrows(c, mt) ==
    /\ Return(c, "threw", mt)
    /\ UNCHANGED <<cached, attempts, readyState, memStarted, MONGODB_URI>>

\* lines 130-136, mutated: the rejected promise is dropped from the cache
FailedOnVercelClears(c, mt) ==
    /\ Return(c, "null", mt)
    /\ cached' = [cached EXCEPT !.promise = 0]
    /\ UNCHANGED <<attempts, readyState, memStarted, MONGODB_URI>>

\* lines 133-136: on Vercel a failed connect returns null
FailedOnVercel(c, mt) ==
    /\ Return(c, "null", mt)
    /\ UNCHANGED <<cached, attempts, readyState, memStarted, MONGODB_URI>>

\* line 141, mutated: the fallback is taken only when no connection string
\* is configured
FallbackOnlyWithoutUri(c, mt) ==
    IF ~isVercel /\ MONGODB_URI = "none"
    THEN /\ memStarted' = memStarted + 1
         /\ call' = [call EXCEPT ![c] = [pc |-> "create", p |-> 0]]
         /\ ret' = [ret EXCEPT ![c] = "none"]
         /\ microtasks' = mt
         /\ UNCHANGED <<cached, attempts, readyState, MONGODB_URI>>
    ELSE /\ Return(c, "undefined", mt)
         /\ UNCHANGED <<cached, attempts, readyState, memStarted, MONGODB_URI>>

\* lines 141-145: the in-memory fallback, up to await MongoMemoryServer.create()
Fallback(c, mt) ==
    IF ~isVercel
    THEN /\ memStarted' = memStarted + 1
         /\ call' = [call EXCEPT ![c] = [pc |-> "create", p |-> 0]]
         /\ ret' = [ret EXCEPT ![c] = "none"]
         /\ microtasks' = mt
         /\ UNCHANGED <<cached, attempts, readyState, MONGODB_URI>>
    ELSE /\ Return(c, "undefined", mt)
         /\ UNCHANGED <<cached, attempts, readyState, memStarted, MONGODB_URI>>

\* lines 100-128 and 141-145: connectDB from its entry to its first await or return
Enter(c, mt) ==
    IF hasConn
    THEN /\ Return(c, "conn", mt)
         /\ UNCHANGED <<cached, attempts, readyState, memStarted, MONGODB_URI>>
    ELSE IF noUriOnVercel
    THEN /\ Return(c, "null", mt)
         /\ UNCHANGED <<cached, attempts, readyState, memStarted, MONGODB_URI>>
    ELSE IF MONGODB_URI # "none"
    THEN /\ IF needsConnect
            THEN /\ Connect(c)
                 /\ call' = [call EXCEPT ![c] = [pc |-> "await128", p |-> Len(attempts) + 1]]
                 /\ microtasks' = mt
            ELSE /\ attempts' = [attempts EXCEPT ![cached.promise].waiters = Append(@, c)]
                 /\ call' = [call EXCEPT ![c] = [pc |-> "await128", p |-> cached.promise]]
                 /\ microtasks' = IF attempts[cached.promise].state = "pending"
                                  THEN mt ELSE Append(mt, <<"db", c>>)
                 /\ UNCHANGED <<cached, readyState>>
         /\ ret' = [ret EXCEPT ![c] = "none"]
         /\ UNCHANGED <<memStarted, MONGODB_URI>>
    ELSE /\ Fallback(c, mt)

\* lines 128-138: the continuation of await cached.promise
Resume128(c) ==
    /\ microtasks # <<>> /\ Head(microtasks) = <<"db", c>>
    /\ call[c].pc = "await128"
    /\ IF attempts[call[c].p].state = "fulfilled"
       THEN /\ cached' = [cached EXCEPT !.conn = "mongoose"]
            /\ Return(c, "conn", Tail(microtasks))
            /\ UNCHANGED <<attempts, readyState, memStarted, MONGODB_URI>>
       ELSE IF isVercel
       THEN FailedOnVercel(c, Tail(microtasks))
       ELSE Fallback(c, Tail(microtasks))
    /\ UNCHANGED <<server, VERCEL, VERCEL_ENV, now, req, last, salaries>>

\* lines 145-153: MongoMemoryServer.create() resolved; connect to the store
MemoryServerCreated(c) ==
    /\ microtasks = <<>>
    /\ call[c].pc = "create"
    /\ MONGODB_URI' = "memory"
    /\ Connect(c)
    /\ call' = [call EXCEPT ![c] = [pc |-> "await153", p |-> Len(attempts) + 1]]
    /\ UNCHANGED <<server, VERCEL, VERCEL_ENV, memStarted, ret, microtasks, now, req, last, salaries>>

\* lines 145, 155-157: MongoMemoryServer.create() rejected; the error is logged
MemoryServerFailed(c) ==
    /\ microtasks = <<>>
    /\ call[c].pc = "create"
    /\ Return(c, "undefined", microtasks)
    /\ UNCHANGED <<server, VERCEL, VERCEL_ENV, MONGODB_URI, cached, attempts, readyState,
                   memStarted, now, req, last, salaries>>

\* lines 153-157: the continuation of the in-memory await cached.promise
Resume153(c) ==
    /\ microtasks # <<>> /\ Head(microtasks) = <<"db", c>>
    /\ call[c].pc = "await153"
    /\ IF attempts[call[c].p].state = "fulfilled"
       THEN /\ cached' = [cached EXCEPT !.conn = "mongoose"]
            /\ Return(c, "conn", Tail(microtasks))
       ELSE /\ Return(c, "undefined", Tail(microtasks))
            /\ UNCHANGED cached
    /\ UNCHANGED <<server, VERCEL, VERCEL_ENV, MONGODB_URI, attempts, readyState, memStarted,
                   now, req, last, salaries>>

\* The continuations of the callers awaiting a promise, in registration order.
Continuations(ws) == [i \in 1..Len(ws) |-> <<"db", ws[i]>>]

\* lines 123, 149: the promise of mongoose.connect settles
Settle(p, state, rs) ==
    /\ microtasks = <<>>
    /\ p \in 1..Len(attempts)
    /\ attempts[p].state = "pending"
    /\ attempts' = [attempts EXCEPT ![p].state = state]
    /\ readyState' = rs
    /\ microtasks' = Continuations(attempts[p].waiters)
    /\ UNCHANGED <<server, VERCEL, VERCEL_ENV, MONGODB_URI, cached, memStarted, call, ret,
                   now, req, last, salaries>>

ConnectSucceeds(p) == Settle(p, "fulfilled", 1)

ConnectFails(p) == Settle(p, "rejected", 0)

\* The connection is lost (readyState 1 to 0) and, once it had been
\* established, comes back without a new connect (readyState 0 to 1).
ConnectionLost ==
    /\ microtasks = <<>>
    /\ readyState = 1
    /\ readyState' = 0
    /\ UNCHANGED <<server, VERCEL, VERCEL_ENV, MONGODB_URI, cached, attempts, memStarted, call,
                   ret, microtasks, now, req, last, salaries>>

Reconnected ==
    /\ microtasks = <<>>
    /\ readyState = 0
    /\ \E p \in 1..Len(attempts) : attempts[p].state = "fulfilled"
    /\ \A p \in 1..Len(attempts) : attempts[p].state # "pending"
    /\ readyState' = 1
    /\ UNCHANGED <<server, VERCEL, VERCEL_ENV, MONGODB_URI, cached, attempts, memStarted, call,
                   ret, microtasks, now, req, last, salaries>>

----------------------------------------------------------------------------
\* The Salary model and the controller

\* salaryId: `SAL${Date.now()}`
SalaryId(t) == <<"SAL", t>>

SalaryIds == {SalaryId(t) : t \in Times}

\* no route parameter
NoId == <<>>

\* The requests: the route and what the handler reads of the request.
\* type may be omitted from the body, and date too (-1); session:
\* req.session.user is set.
Requests ==
    [kind : {"list"}, type : {"omitted"}, date : {-1}, session : {TRUE},
     id : {NoId}]
    \cup [kind : {"add"}, type : {"full", "advance", "bonus", "omitted"},
          date : -1..MaxClock, session : BOOLEAN, id : {NoId}]
    \cup [kind : {"delete"}, type : {"omitted"}, date : {-1}, session : {TRUE},
          id : SalaryIds]

Free == [phase |-> "none", kind |-> "none", type |-> "omitted", date |-> -1,
         session |-> TRUE, id |-> NoId]

NoResponse == [kind |-> "none", type |-> "omitted", session |-> TRUE, status |-> 0,
               fwd |-> FALSE, note |-> "", shown |-> <<>>]

\* The response to request q, with q's route, body type and session; fwd: a
\* route handler ran; shown: the list rendered.
Response(q, status, fwd, note) ==
    [kind |-> q.kind, type |-> q.type, session |-> q.session, status |-> status,
     fwd |-> fwd, note |-> note, shown |-> <<>>]

\* schema line 7, mutated: no unique index on salaryId
InsertableAlways(coll, doc) == TRUE

\* schema lines 4-8: salaryId is unique
Insertable(coll, doc) == \A i \in 1..Len(coll) : coll[i].salaryId # doc.salaryId

\* schema lines 17-21, mutated: type is a plain String, no enum
ValidatesAlways(doc) == TRUE

\* schema lines 17-21: type is one of the enum's values
Validates(doc) == doc.type \in {"full", "advance"}
\* line 6, mutated: find() without sort: the documents in insertion order
Unsorted(coll) == {coll}

\* line 6: the documents sorted by date, latest first; ties in either order
Sorted(coll) ==
    {s \in [1..Len(coll) -> {coll[i] : i \in 1..Len(coll)}] :
        /\ \A i \in 1..Len(coll) : \E j \in 1..Len(s) : s[j] = coll[i]
        /\ \A i \in 1..(Len(s) - 1) : s[i].date >= s[i + 1].date}

Matches(coll, id) == {i \in 1..Len(coll) : coll[i].salaryId = id}

\* line 43, mutated: the oldest document is removed, whichever matched
WithoutFirst(coll, k) == [i \in 1..(Len(coll) - 1) |-> coll[i + 1]]

\* line 43: the collection without its k-th document
Without(coll, k) == [i \in 1..(Len(coll) - 1) |-> IF i < k THEN coll[i] ELSE coll[i + 1]]

\* line 43, mutated: a miss removes the oldest document
findOneAndDeleteAny(coll, id) ==
    IF coll = <<>> THEN coll
    ELSE IF Matches(coll, id) = {} THEN Without(coll, 1)
    ELSE Without(coll, CHOOSE k \in Matches(coll, id) : \A m \in Matches(coll, id) : k <= m)

\* line 43: Salary.findOneAndDelete({ salaryId }): the first match, if any, is removed
findOneAndDelete(coll, id) ==
    IF Matches(coll, id) = {} THEN coll
    ELSE Without(coll, CHOOSE k \in Matches(coll, id) : \A m \in Matches(coll, id) : k <= m)

\* lines 22-31: new Salary({...}); type defaults to full, date to new Date()
NewSalary(q) ==
    [salaryId |-> SalaryId(now),
     type |-> IF q.type = "omitted" THEN "full" ELSE q.type,
     date |-> IF q.date = -1 THEN now ELSE q.date]

\* part_000 line 30, mutated: recordedBy is not read from the session
hasSessionUserAlways(q) == TRUE

\* part_000 line 30: req.session.user.name can be read
hasSessionUser(q) == q.session

\* next(): the route handler runs up to its await.  addSalary reads
\* req.session.user.name, which throws when there is no session user; the
\* throw is inside the handler's try and is answered by its catch.  The
\* request keeps the body's type; the new document's id and date are fixed.
Forward(r, q) ==
    IF q.kind = "add" /\ ~hasSessionUser(q)
    THEN /\ last' = Response(q, 500, TRUE, "nosession")
         /\ req' = [req EXCEPT ![r] = Free]
    ELSE /\ req' = [req EXCEPT ![r] =
                 IF q.kind = "add"
                 THEN [phase |-> "handler", kind |-> "add", type |-> q.type,
                       date |-> NewSalary(q).date, session |-> q.session,
                       id |-> NewSalary(q).salaryId]
                 ELSE [phase |-> "handler", kind |-> q.kind, type |-> q.type,
                       date |-> q.date, session |-> q.session, id |-> q.id]]
         /\ UNCHANGED last

\* lines 184-198: res.status(503).send(...)
SetupRequired(r, q) ==
    /\ last' = Response(q, 503, FALSE, "guard")
    /\ req' = [req EXCEPT ![r] = Free]

\* line 167, mutated: only VERCEL is looked at
onVercelOnlyFlag == VERCEL

\* line 167: if (!process.env.VERCEL && !process.env.VERCEL_ENV) return next()
onVercel == ~(~VERCEL /\ ~VERCEL_ENV)

\* lines 170, 176, 183, mutated: a connecting connection passes too
isConnectedOrConnecting(rs) == rs # 0

\* lines 170, 176, 183: mongoose.connection.readyState === 1
isConnected(rs) == rs = 1

\* line 173, mutated: the guard never waits
isConnectingNever(rs) == FALSE

\* line 173: mongoose.connection.readyState === 2
isConnecting(rs) == rs = 2

Booted == call[Boot].pc # "idle" \/ ret[Boot] # "none"

\* An unhandled rejection of the call of line 162 ends the process.
Alive == ret[Boot] # "threw"

\* line 162: connectDB() when the module is loaded
Start ==
    /\ ~Booted
    /\ Enter(Boot, microtasks)
    /\ UNCHANGED <<server, VERCEL, VERCEL_ENV, now, req, last, salaries>>

\* The requests of each route with the body's defaults: a list, an add with
\* a session user and neither type nor date, a delete of any id.
Probes ==
    {q \in Requests :
        \/ q.kind = "list"
        \/ q.kind = "add" /\ q.type = "omitted" /\ q.date = -1 /\ q.session
        \/ q.kind = "delete"}

\* lines 165-202: a request reaches the guard
Arrive(r, q) ==
    /\ microtasks = <<>> /\ Booted /\ Alive
    /\ req[r].phase = "none"
    /\ \A k \in Reqs : k < r => req[k].phase # "none"
    /\ IF ~onVercel \/ isConnected(readyState)
       THEN /\ Forward(r, q)
            /\ UNCHANGED <<MONGODB_URI, cached, attempts, readyState, memStarted, call,
                           ret, microtasks>>
       ELSE IF isConnecting(readyState)
       THEN /\ Enter(r, microtasks)
            /\ req' = [req EXCEPT ![r] =
                         [phase |-> "guard", kind |-> q.kind, type |-> q.type,
                          date |-> q.date, session |-> q.session, id |-> q.id]]
            /\ UNCHANGED last
       ELSE /\ SetupRequired(r, q)
            /\ UNCHANGED <<MONGODB_URI, cached, attempts, readyState, memStarted, call,
                           ret, microtasks>>
    /\ UNCHANGED <<server, VERCEL, VERCEL_ENV, now, salaries>>

\* lines 176-201: the guard continues after await connectDB()
GuardResume(r) ==
    /\ microtasks # <<>> /\ Head(microtasks) = <<"guard", r>>
    /\ req[r].phase = "guard"
    /\ microtasks' = Tail(microtasks)
    /\ IF isConnected(readyState)
       THEN Forward(r, req[r])
       ELSE SetupRequired(r, req[r])
    /\ UNCHANGED <<server, VERCEL, VERCEL_ENV, MONGODB_URI, cached, attempts, readyState,
                   memStarted, call, ret, now, salaries>>

Respond(r, resp) ==
    /\ last' = resp
    /\ req' = [req EXCEPT ![r] = Free]

\* part_000 lines 4-17: getSalaries
GetSalaries(r) ==
    /\ microtasks = <<>>
    /\ req[r].phase = "handler" /\ req[r].kind = "list"
    /\ IF readyState = 1
       THEN \E s \in Sorted(salaries) :
               Respond(r, [Response(req[r], 200, TRUE, "ok") EXCEPT !.shown = s])
       ELSE Respond(r, Response(req[r], 500, TRUE, "dbdown"))
    /\ UNCHANGED <<server, VERCEL, VERCEL_ENV, MONGODB_URI, cached, attempts, readyState,
                   memStarted, call, ret, microtasks, now, salaries>>

\* part_000 lines 20-38: addSalary, from await newSalary.save()
AddSalary(r) ==
    /\ microtasks = <<>>
    /\ req[r].phase = "handler" /\ req[r].kind = "add"
    /\ LET doc == [salaryId |-> req[r].id, type |-> NewSalary(req[r]).type,
                   date |-> req[r].date]
       IN  IF ~Validates(doc)
           THEN /\ Respond(r, Response(req[r], 500, TRUE, "invalid"))
                /\ UNCHANGED salaries
           ELSE IF readyState # 1
           THEN /\ Respond(r, Response(req[r], 500, TRUE, "dbdown"))
                /\ UNCHANGED salaries
           ELSE IF ~Insertable(salaries, doc)
           THEN /\ Respond(r, Response(req[r], 500, TRUE, "duplicate"))
                /\ UNCHANGED salaries
           ELSE /\ Respond(r, Response(req[r], 302, TRUE, "saved"))
                /\ salaries' = Append(salaries, doc)
    /\ UNCHANGED <<server, VERCEL, VERCEL_ENV, MONGODB_URI, cached, attempts, readyState,
                   memStarted, call, ret, microtasks, now>>

\* part_000 lines 41-49: deleteSalary
DeleteSalary(r) ==
    /\ microtasks = <<>>
    /\ req[r].phase = "handler" /\ req[r].kind = "delete"
    /\ IF readyState = 1
       THEN /\ salaries' = findOneAndDelete(salaries, req[r].id)
            /\ Respond(r, Response(req[r], 302, TRUE,
                                   IF Matches(salaries, req[r].id) = {} THEN "miss" ELSE "hit"))
       ELSE /\ Respond(r, Response(req[r], 500, TRUE, "dbdown"))
            /\ UNCHANGED salaries
    /\ UNCHANGED <<server, VERCEL, VERCEL_ENV, MONGODB_URI, cached, attempts, readyState,
                   memStarted, call, ret, microtasks, now>>

\* Date.now() advances
Tick ==
    /\ microtasks = <<>>
    /\ now < MaxClock
    /\ now' = now + 1
    /\ UNCHANGED <<server, VERCEL, VERCEL_ENV, MONGODB_URI, cached, attempts, readyState,
                   memStarted, call, ret, microtasks, req, last, salaries>>

----------------------------------------------------------------------------
\* startServer

\* line 59: process.env.PORT || 5000, with PORT unset
DEFAULT_PORT == 5000

Ports == DEFAULT_PORT..(DEFAULT_PORT + MaxPorts - 1)

\* What app.listen(port) ends in: the 'listening' event, or an 'error' event
\* with code EADDRINUSE or another code (EACCES stands for all others).
Outcomes == {"listening", "EADDRINUSE", "EACCES"}

\* state: "off" (startServer not called), "binding" (app.listen called, no
\* event yet), "listening", "failed" (an error that is not retried);
\* port: the port of the current attempt; tried: the ports of all attempts;
\* env: what listening on each port ends in, fixed when the server starts.
NotStarted == [state |-> "off", port |-> DEFAULT_PORT, tried |-> <<>>,
               env |-> [p \in Ports |-> "listening"]]

\* line 216, mutated: startServer(port + 2)
NextPortSkips(port) == port + 2

\* line 216: startServer(port + 1)
NextPort(port) == port + 1

\* line 214: err.code === 'EADDRINUSE'
isAddressInUse(code) == code = "EADDRINUSE"

\* lines 208-209: app.listen(port, ...)
Listen(s, port) ==
    [s EXCEPT !.state = "binding", !.port = port, !.tried = Append(s.tried, port)]

\* lines 227-229: startServer(parseInt(DEFAULT_PORT)), when run as the main
\* module, after connectDB() of line 162 has been called
StartServer ==
    /\ microtasks = <<>> /\ Booted
    /\ server.state = "off"
    /\ \E e \in [Ports -> Outcomes] :
          server' = Listen([server EXCEPT !.env = e], DEFAULT_PORT)
    /\ UNCHANGED <<VERCEL, VERCEL_ENV, MONGODB_URI, cached, attempts, readyState,
                   memStarted, call, ret, microtasks, now, req, last, salaries>>

\* lines 209-211: the 'listening' callback
Listening ==
    /\ microtasks = <<>>
    /\ server.state = "binding"
    /\ server.env[server.port] = "listening"
    /\ server' = [server EXCEPT !.state = "listening"]
    /\ UNCHANGED <<VERCEL, VERCEL_ENV, MONGODB_URI, cached, attempts, readyState,
                   memStarted, call, ret, microtasks, now, req, last, salaries>>

\* lines 213-221: the 'error' handler; the ports beyond the last one
\* modelled are not tried
ListenError ==
    /\ microtasks = <<>>
    /\ server.state = "binding"
    /\ server.env[server.port] # "listening"
    /\ IF isAddressInUse(server.env[server.port])
       THEN /\ NextPort(server.port) \in Ports
            /\ server' = Listen(server, NextPort(server.port))
       ELSE server' = [server EXCEPT !.state = "failed"]
    /\ UNCHANGED <<VERCEL, VERCEL_ENV, MONGODB_URI, cached, attempts, readyState,
                   memStarted, call, ret, microtasks, now, req, last, salaries>>

----------------------------------------------------------------------------

\* lines 95-98: the cache starts empty; the environment is any of the deployments
Init ==
    /\ VERCEL \in BOOLEAN
    /\ VERCEL_ENV \in BOOLEAN
    /\ MONGODB_URI \in {"none", "configured"}
    /\ cached = [conn |-> NULL, promise |-> 0]
    /\ attempts = <<>>
    /\ readyState = 0
    /\ memStarted = 0
    /\ call = [c \in Callers |-> Idle]
    /\ ret = [c \in Callers |-> "none"]
    /\ microtasks = <<>>
    /\ now = 0
    /\ req = [r \in Reqs |-> Free]
    /\ last = NoResponse
    /\ salaries = <<>>
    /\ server = NotStarted

\* The connection manager's steps and the connection's own events
Manager ==
    \/ Start
    \/ \E c \in Callers : Resume128(c)
    \/ \E c \in Callers : MemoryServerCreated(c)
    \/ \E c \in Callers : MemoryServerFailed(c)
    \/ \E c \in Callers : Resume153(c)
    \/ \E p \in 1..Len(attempts) : ConnectSucceeds(p)
    \/ \E p \in 1..Len(attempts) : ConnectFails(p)
    \/ ConnectionLost
    \/ Reconnected

Next ==
    \/ Manager
    \/ \E r \in Reqs, q \in Probes : Arrive(r, q)
    \/ \E r \in Reqs : GuardResume(r)
    \/ \E r \in Reqs : GetSalaries(r)
    \/ \E r \in Reqs : AddSalary(r)
    \/ \E r \in Reqs : DeleteSalary(r)
    \/ Tick

Spec == Init /\ [][Next]_vars

\* connectDB called by further callers, at any time once the module is loaded
DirectCall(d) ==
    /\ microtasks = <<>> /\ Booted /\ Alive
    /\ call[d].pc = "idle" /\ ret[d] = "none"
    /\ Enter(d, microtasks)
    /\ UNCHANGED <<server, VERCEL, VERCEL_ENV, now, req, last, salaries>>

\* The connection manager under its own callers and further ones; the
\* requests are those of the list page.
NextCalls ==
    \/ Manager
    \/ \E d \in Direct : DirectCall(d)
    \/ \E r \in Reqs, q \in {p \in Probes : p.kind = "list"} : Arrive(r, q)
    \/ \E r \in Reqs : GuardResume(r)
    \/ \E r \in Reqs : GetSalaries(r)

SpecCalls == Init /\ [][NextCalls]_vars

\* The store and the controller under every request of the menu, with a
\* connection string configured, locally and on Vercel.
InitStore ==
    /\ Init
    /\ VERCEL = VERCEL_ENV
    /\ MONGODB_URI = "configured"

NextStore ==
    \/ Manager
    \/ \E r \in Reqs, q \in Requests : Arrive(r, q)
    \/ \E r \in Reqs : GuardResume(r)
    \/ \E r \in Reqs : GetSalaries(r)
    \/ \E r \in Reqs : AddSalary(r)
    \/ \E r \in Reqs : DeleteSalary(r)
    \/ Tick

SpecStore == InitStore /\ [][NextStore]_vars

\* The requests of the list page and of the add form with any date, a
\* session user and the default type.
Dated ==
    {q \in Requests :
        \/ q.kind = "list"
        \/ q.kind = "add" /\ q.type = "omitted" /\ q.session}

\* The list page under creates of any date and no delete, one request at
\* a time, with a connection string configured, locally and on Vercel.
NextList ==
    \/ Manager
    \/ \E q \in Dated : Arrive(1, q)
    \/ GuardResume(1)
    \/ GetSalaries(1)
    \/ AddSalary(1)
    \/ Tick

SpecList == InitStore /\ [][NextList]_vars
\* The server start beside the connection manager.  An event that stays
\* ready is taken by the event loop, and so is a continuation.
NextListen ==
    \/ Manager
    \/ StartServer
    \/ Listening
    \/ ListenError

SpecListen ==
    /\ Init /\ [][NextListen]_vars
    /\ WF_vars(Listening) /\ WF_vars(ListenError)
    /\ WF_vars(\E c \in Callers : Resume128(c))
    /\ WF_vars(\E c \in Callers : Resume153(c))
\* The guard and the list page beside the connection manager.  A connect
\* settles (serverSelectionTimeoutMS bounds it), and a continuation that is
\* ready runs.
NextGuard ==
    \/ Manager
    \/ \E r \in Reqs, q \in {p \in Probes : p.kind = "list"} : Arrive(r, q)
    \/ \E r \in Reqs : GuardResume(r)
    \/ \E r \in Reqs : GetSalaries(r)

SpecGuard ==
    /\ Init /\ [][NextGuard]_vars
    /\ WF_vars(\E p \in 1..Len(attempts) : ConnectSucceeds(p) \/ ConnectFails(p))
    /\ WF_vars(\E c \in Callers : Resume128(c))
    /\ WF_vars(\E r \in Reqs : GuardResume(r))

\* The add form with any type, with and without a session user, and the
\* default date.
Forms == {q \in Requests : q.kind = "add" /\ q.date = -1}

\* The add form's handler under every type and session, one request at a
\* time, with a connection string configured, locally and on Vercel.
NextForms ==
    \/ Manager
    \/ \E q \in Forms : Arrive(1, q)
    \/ GuardResume(1)
    \/ AddSalary(1)
    \/ Tick

SpecForms == InitStore /\ [][NextForms]_vars

----------------------------------------------------------------------------
\* The claims

\* the managed/serverless deployment context
Managed == VERCEL \/ VERCEL_ENV

InFlight == {p \in 1..Len(attempts) : attempts[p].state = "pending"}

Awaiting == {c \in Callers : call[c].pc \in {"await128", "await153"}}

\* C1: at most one connection attempt is in flight at any time; every caller
\* that is waiting waits for the one cached attempt; no in-memory store is
\* started while an attempt is in flight, and never a second one.
C1_OneAttemptInFlight ==
    /\ Cardinality(InFlight) <= 1
    /\ \A c \in Awaiting : call[c].p = cached.promise
    /\ memStarted <= 1
    /\ InFlight # {} => \A c \in Callers : call[c].pc # "create"
    /\ Managed => Len(attempts) <= 1

C1_Witness ==
    /\ Len(attempts) = 1 /\ attempts[1].state = "pending"
    /\ call[Boot].pc = "await128"
    /\ \A r \in Reqs : call[r].pc = "await128" /\ call[r].p = call[Boot].p

\* A step in which the guard hands a request to the route handlers (next()).
GuardForwards ==
    \/ \E r \in Reqs : req[r].phase \in {"none", "guard"} /\ req'[r].phase = "handler"
    \/ last'.note = "nosession" /\ <<req, last>>' # <<req, last>>

\* A step in which the guard answers a request itself.
GuardRejects ==
    /\ last'.note = "guard"
    /\ \/ req' = req /\ last' # last
       \/ \E r \in Reqs : req[r].phase = "guard" /\ req'[r].phase = "none"

\* C2: in the managed context the guard forwards a request only while
\* readyState is 1; otherwise it answers 503 and no route handler runs.
C2_ForwardOnlyWhenConnected ==
    [][Managed =>
         /\ GuardForwards => readyState = 1 /\ ~GuardRejects
         /\ GuardRejects => readyState # 1 /\ last'.status = 503 /\ ~last'.fwd
         /\ \A r \in Reqs : req'[r].phase = "handler" => readyState = 1 \/ req[r].phase = "handler"
      ]_vars

C2_Witness ==
    /\ Managed
    /\ \E r \in Reqs : req[r].phase = "handler" /\ ret[r] = "conn"
    /\ last.status = 503

\* Nothing is connected, connecting or about to connect.
Unreachable ==
    /\ readyState = 0
    /\ InFlight = {}
    /\ \A c \in Callers : call[c].pc = "idle"
    /\ \A p \in 1..Len(attempts) : attempts[p].state = "rejected"
    /\ Booted

\* C3 as claimed: in any deployment context, a request that arrives while no
\* database is reachable is answered 503 by the guard and reaches no handler.
C3_AsClaimed ==
    [][Unreachable /\ (GuardForwards \/ GuardRejects) =>
         GuardRejects /\ last'.status = 503 /\ ~last'.fwd]_vars

\* C3, amended: that holds in the managed context; in the local context the
\* guard forwards every request, and a handler whose store operation finds no
\* database answers 500.
C3_UnreachableIs503WhenManaged ==
    [][/\ Managed /\ Unreachable /\ (GuardForwards \/ GuardRejects) =>
            GuardRejects /\ last'.status = 503 /\ ~last'.fwd
       /\ ~Managed => ~GuardRejects
       /\ ~Managed /\ Unreachable /\ last' # last => last'.fwd /\ last'.status = 500
      ]_vars

C3_Witness ==
    /\ Managed /\ MONGODB_URI = "none" /\ Unreachable
    /\ last.status = 503 /\ ~last.fwd

\* C4: in the managed context the in-memory store is never started.
C4_NoMemoryServerWhenManaged ==
    Managed =>
        /\ memStarted = 0
        /\ MONGODB_URI # "memory"
        /\ \A c \in Callers : call[c].pc \notin {"create", "await153"}

C4_Witness ==
    /\ Managed /\ MONGODB_URI = "configured"
    /\ Len(attempts) = 1 /\ attempts[1].state = "rejected"
    /\ ret[Boot] = "null" /\ microtasks = <<>>

\* The state of the process-wide handle.
HandleState ==
    IF cached.conn # NULL THEN "Connected"
    ELSE IF cached.promise = 0 THEN "Unset"
    ELSE IF attempts[cached.promise].state = "rejected" THEN "Failed"
    ELSE "Connecting"

Moves == {<<"Unset", "Connecting">>, <<"Connecting", "Connected">>,
          <<"Connecting", "Failed">>}

\* C5 as claimed: in either context the handle only moves Unset -> Connecting
\* -> Connected or Failed; Connected and Failed are never left.
C5_AsClaimed ==
    [][HandleState' = HandleState \/ <<HandleState, HandleState'>> \in Moves]_vars

\* C5, amended: that holds in the managed context.  In the local context
\* Connected is never left either, but Failed is left, once, for a second
\* Connecting phase when the in-memory store's connect begins.
C5_HandleMoves ==
    [][\/ HandleState' = HandleState
       \/ <<HandleState, HandleState'>> \in Moves
       \/ /\ ~Managed
          /\ <<HandleState, HandleState'>> = <<"Failed", "Connecting">>
          /\ MONGODB_URI = "configured" /\ MONGODB_URI' = "memory"
          /\ Len(attempts) = 1
      ]_vars

C5_Witness ==
    /\ ~Managed
    /\ Len(attempts) = 2 /\ attempts[1].state = "rejected"
    /\ HandleState = "Connected"

\* C6: in the managed context with no connection string, connectDB returns
\* null, starts no attempt and leaves the cache as it was.
C6_NoUriOnVercelReturnsNull ==
    Managed /\ MONGODB_URI = "none" =>
        /\ attempts = <<>> /\ memStarted = 0 /\ readyState = 0
        /\ cached = [conn |-> NULL, promise |-> 0]
        /\ \A c \in Callers : call[c] = Idle /\ ret[c] \in {"none", "null"}
        /\ Booted => ret[Boot] = "null"

C6_Witness ==
    /\ Managed /\ MONGODB_URI = "none"
    /\ ret[Boot] = "null" /\ cached.promise = 0

\* C7: in the managed context, when the configured connect fails, every
\* caller that waited for it gets null, nothing is thrown, no handle is
\* cached, and the process goes on taking requests.
C7_FailedConnectReturnsNull ==
    Managed /\ Len(attempts) > 0 /\ attempts[1].state = "rejected" /\ microtasks = <<>> =>
        /\ \A i \in 1..Len(attempts[1].waiters) : ret[attempts[1].waiters[i]] = "null"
        /\ \A c \in Callers : ret[c] # "threw"
        /\ cached.conn = NULL
        /\ Alive
        /\ ENABLED (\E r \in Reqs, q \in Probes : Arrive(r, q))

C7_Witness ==
    /\ Managed /\ Len(attempts) = 1 /\ attempts[1].state = "rejected"
    /\ Len(attempts[1].waiters) > 1
    /\ \A c \in Callers : ret[c] \in {"none", "null"}
    /\ ret[Boot] = "null"
    /\ last.status = 503 /\ microtasks = <<>>

\* C8: once a handle is cached, a call of connectDB returns that handle at
\* once and starts neither a connect nor an in-memory store.
C8_CachedHandleReturned ==
    [][\A c \in Callers :
          cached.conn # NULL /\ call[c].pc = "idle" /\ <<call[c], ret[c]>>' # <<call[c], ret[c]>>
          => /\ ret'[c] = "conn" /\ call'[c] = Idle
             /\ cached' = cached /\ attempts' = attempts
             /\ memStarted' = memStarted /\ readyState' = readyState
      ]_vars

C8_Witness ==
    /\ cached.conn # NULL
    /\ \E d \in Direct :
          /\ ret[d] = "conn"
          /\ \A p \in 1..Len(attempts) :
                \A i \in 1..Len(attempts[p].waiters) : attempts[p].waiters[i] # d

\* A step in which the handler of request r, of the given kind, answers.
Answers(r, kind) ==
    req[r].phase = "handler" /\ req[r].kind = kind /\ req'[r].phase = "none"

\* C9: no two stored records have the same salaryId; a create whose id is
\* already stored is answered 500 and adds nothing.
C9_UniqueSalaryId ==
    /\ [](\A i, j \in 1..Len(salaries) :
             i # j => salaries[i].salaryId # salaries[j].salaryId)
    /\ [][\A r \in Reqs :
             Answers(r, "add") /\ Matches(salaries, req[r].id) # {}
             => salaries' = salaries /\ last'.status = 500]_vars

C9_Witness ==
    /\ last.kind = "add" /\ last.note = "duplicate" /\ last.status = 500
    /\ Matches(salaries, SalaryId(now)) # {}
    /\ Len(salaries) = MaxClock + 1

\* C10: a delete whose id matches no stored record leaves the collection as
\* it is and is answered with the redirect (302); 500 only when the store
\* operation itself fails.
C10_DeleteMissIsNoOp ==
    [][\A r \in Reqs :
          Answers(r, "delete") /\ Matches(salaries, req[r].id) = {}
          => /\ salaries' = salaries
             /\ last'.kind = "delete"
             /\ IF readyState = 1 THEN last'.status = 302 /\ last'.note = "miss"
                ELSE last'.status = 500
      ]_vars

C10_Witness ==
    /\ last.kind = "delete" /\ last.note = "miss" /\ last.status = 302
    /\ salaries # <<>>

\* C11: a delete whose id is stored, with the store reachable, removes the
\* record with that salaryId and no other: the collection is one shorter, no
\* record with that id is left, and every other record is still there.
C11_DeleteHitRemovesOne ==
    [][\A r \in Reqs :
          Answers(r, "delete") /\ Matches(salaries, req[r].id) # {} /\ readyState = 1
          => /\ Len(salaries') = Len(salaries) - 1
             /\ Matches(salaries', req[r].id) = {}
             /\ \A i \in 1..Len(salaries) :
                   salaries[i].salaryId # req[r].id
                   => \E j \in 1..Len(salaries') : salaries'[j] = salaries[i]
             /\ last'.kind = "delete" /\ last'.status = 302
      ]_vars

C11_Witness ==
    /\ last.kind = "delete" /\ last.note = "hit" /\ last.status = 302
    /\ Len(salaries) = 1 /\ salaries[1].salaryId = SalaryId(0)
    /\ now = MaxClock /\ \A r \in Reqs : req[r].phase = "none"

C13_TypeValidatedAndDefaulted ==
    /\ [](\A i \in 1..Len(salaries) : salaries[i].type \in {"full", "advance"})
    /\ [][\A r \in Reqs :
             Answers(r, "add") =>
                /\ last'.kind = "add" /\ last'.type = req[r].type
                /\ req[r].type \notin {"full", "advance", "omitted"}
                   => last'.status = 500 /\ salaries' = salaries
                /\ req[r].type = "omitted" /\ salaries' # salaries
                   => /\ salaries' = Append(salaries, [salaryId |-> req[r].id,
                                                       type |-> "full",
                                                       date |-> req[r].date])
                      /\ last'.status = 302
                /\ req[r].type = "omitted" /\ readyState = 1
                      /\ Matches(salaries, req[r].id) = {}
                   => salaries' # salaries]_vars

C13_Witness ==
    /\ last.kind = "add" /\ last.type = "bonus" /\ last.status = 500 /\ last.fwd
    /\ Len(salaries) = 1 /\ salaries[1].type = "full"
    /\ \A r \in Reqs : req[r].phase = "none"

\* C14: a create with no session user that reaches the handler is answered
\* 500 by the handler in the same step: it never waits on the store and
\* no record is stored.
C14_NoSessionUserIs500 ==
    /\ [](\A r \in Reqs : req[r].phase = "handler" => req[r].session)
    /\ [][last' # last /\ last'.kind = "add" /\ ~last'.session =>
             /\ salaries' = salaries
             /\ last'.fwd <=> ~Managed \/ readyState = 1
             /\ last'.fwd => last'.status = 500 /\ GuardForwards
             /\ ~last'.fwd => last'.status = 503
             /\ \A r \in Reqs : req'[r].phase = "handler" => req[r].phase = "handler"
         ]_vars

C14_Witness ==
    /\ last.kind = "add" /\ ~last.session /\ last.status = 500 /\ last.fwd
    /\ Managed /\ readyState = 1 /\ salaries # <<>>

\* the ports on which listening succeeds
FreePorts == {p \in Ports : server.env[p] = "listening"}

LowestFree == CHOOSE p \in FreePorts : \A q \in FreePorts : p <= q

\* the first port, from the preferred one on, that is not in use
FirstNotInUse ==
    CHOOSE p \in Ports :
        /\ server.env[p] # "EADDRINUSE"
        /\ \A q \in Ports : q < p => server.env[q] = "EADDRINUSE"

\* The ports tried are the preferred one and its successors, one by one;
\* a new attempt follows only "address in use", on the next port; another
\* error ends the attempts, and so does listening.
PortRetrySafety ==
    /\ [](/\ \A i \in 1..Len(server.tried) : server.tried[i] = DEFAULT_PORT + i - 1
          /\ server.state # "off" => server.port = server.tried[Len(server.tried)])
    /\ [][server.tried' # server.tried =>
             \/ server.state = "off" /\ server.tried' = <<DEFAULT_PORT>>
             \/ /\ server.state = "binding"
                /\ server.env[server.port] = "EADDRINUSE"
                /\ server.tried' = Append(server.tried, server.port + 1)]_vars
    /\ [][server.state = "binding" /\ server.env[server.port] = "EACCES"
             /\ server' # server
          => server'.state = "failed" /\ server'.tried = server.tried]_vars
    /\ [][server.state \in {"listening", "failed"} => server' = server]_vars

\* C15 as claimed: the above, and whenever some port from the preferred one
\* on is free, the server eventually listens on the lowest free port.
C15_AsClaimed ==
    /\ PortRetrySafety
    /\ (server.state = "binding" /\ FreePorts # {})
          ~> (server.state = "listening" /\ server.port = LowestFree)

\* C15, amended: the server eventually listens on the lowest free port when
\* every port below it is in use; when a port below it fails with another
\* error, the attempts end there and the server never listens.
C15_PortRetry ==
    /\ PortRetrySafety
    /\ (/\ server.state = "binding" /\ FreePorts # {}
        /\ \A q \in Ports : q < LowestFree => server.env[q] = "EADDRINUSE")
          ~> (server.state = "listening" /\ server.port = LowestFree)
    /\ (/\ server.state = "binding"
        /\ \E p \in Ports : server.env[p] # "EADDRINUSE"
        /\ server.env[FirstNotInUse] = "EACCES")
          ~> [](server.state = "failed" /\ server.port = FirstNotInUse)

C15_Witness ==
    /\ server.state = "listening" /\ server.port = DEFAULT_PORT + MaxPorts - 1
    /\ Len(server.tried) = MaxPorts
    /\ \A p \in Ports : p < server.port => server.env[p] = "EADDRINUSE"

\* C16: in the managed context a request that arrives while the connect is
\* in flight is held by the guard, not answered, until the connect has
\* settled; it then goes to the route handlers if the connect succeeded and
\* is answered 503 if it failed; and it does leave the guard.
C16_GuardWaitsForAttempt ==
    /\ [](Managed => (readyState = 2 <=> InFlight # {}))
    /\ [][Managed /\ InFlight # {} =>
             /\ last' = last
             /\ \A r \in Reqs : req'[r].phase \in {req[r].phase, "guard"}]_vars
    /\ [][\A r \in Reqs :
             Managed /\ req[r].phase = "guard" /\ req'[r].phase # "guard" =>
                /\ InFlight = {} /\ Len(attempts) = 1
                /\ attempts[1].state = "fulfilled"
                   => req'[r].phase = "handler" /\ last' = last
                /\ attempts[1].state = "rejected"
                   => /\ req'[r].phase = "none"
                      /\ last'.status = 503 /\ ~last'.fwd]_vars
    /\ \A r \in Reqs :
          (Managed /\ req[r].phase = "guard") ~> (req[r].phase # "guard")

C16_Witness ==
    /\ Managed /\ Len(attempts) = 1 /\ attempts[1].state = "fulfilled"
    /\ \A r \in Reqs :
          /\ req[r].phase = "handler" /\ ret[r] = "conn"
          /\ \E i \in 1..Len(attempts[1].waiters) : attempts[1].waiters[i] = r

\* the managed context after its connect has failed
FailedWhenManaged ==
    Managed /\ Len(attempts) > 0 /\ attempts[1].state = "rejected"

\* C17: in the managed context, once the connect has failed, the rejected
\* attempt stays cached and stays the only one; every connectDB call that
\* returns from then on returns null, and none is left waiting; no request
\* reaches a handler and every response is the guard's 503.
C17_FailedNeverRetried ==
    /\ [](FailedWhenManaged =>
             /\ cached = [conn |-> NULL, promise |-> 1]
             /\ readyState = 0 /\ memStarted = 0
             /\ \A r \in Reqs : req[r].phase # "handler"
             /\ \A c \in Callers : ret[c] \in {"none", "null"}
             /\ microtasks = <<>> => \A c \in Callers : call[c] = Idle)
    /\ [][FailedWhenManaged =>
             /\ Len(attempts') = 1 /\ attempts'[1].state = "rejected"
             /\ \A c \in Callers :
                   call[c].pc # "idle" /\ call'[c].pc = "idle" => ret'[c] = "null"
             /\ last' # last => last'.status = 503 /\ ~last'.fwd]_vars

C17_Witness ==
    /\ FailedWhenManaged /\ microtasks = <<>>
    /\ last.status = 503
    /\ \E d \in Direct :
          /\ ret[d] = "null"
          /\ attempts[1].waiters[Len(attempts[1].waiters)] = d
          /\ attempts[1].waiters[1] = Boot
          /\ ret[Boot] = "null"

\* C18: in the local context a connectDB call goes on to start the in-memory
\* store when no connection string is configured and also when the connect
\* to the configured one has failed, and in no other case; when the store
\* has started, a new connect replaces the cached attempt, and when that
\* connect succeeds the call caches the connection and returns it.
C18_LocalFallback ==
    [][\A c \in Callers :
          ~Managed /\ call'[c] # call[c] =>
             /\ call[c].pc = "idle" /\ MONGODB_URI = "none" /\ cached.conn = NULL
                => call'[c].pc = "create" /\ memStarted' = memStarted + 1
             /\ call[c].pc = "await128" /\ attempts[call[c].p].state = "rejected"
                => /\ call'[c].pc = "create" /\ memStarted' = memStarted + 1
                   /\ MONGODB_URI = "configured"
             /\ call'[c].pc = "create"
                => \/ call[c].pc = "idle" /\ MONGODB_URI = "none"
                   \/ call[c].pc = "await128" /\ attempts[call[c].p].state = "rejected"
             /\ call[c].pc = "create" /\ call'[c].pc = "await153"
                => /\ cached'.promise = Len(attempts) + 1
                   /\ cached'.promise # cached.promise
                   /\ call'[c].p = cached'.promise
                   /\ attempts'[cached'.promise].state = "pending"
                   /\ MONGODB_URI' = "memory"
             /\ call[c].pc = "await153" /\ attempts[call[c].p].state = "fulfilled"
                => /\ cached' = [conn |-> "mongoose", promise |-> call[c].p]
                   /\ ret'[c] = "conn" /\ call'[c] = Idle
      ]_vars

C18_Witness ==
    /\ ~Managed /\ memStarted = 1 /\ MONGODB_URI = "memory"
    /\ Len(attempts) = 2
    /\ attempts[1].state = "rejected" /\ attempts[2].state = "fulfilled"
    /\ cached = [conn |-> "mongoose", promise |-> 2]
    /\ ret[Boot] = "conn" /\ call[Boot] = Idle

====
